---------------------------- MODULE Spec2Model ----------------------------
(***************************************************************************)
(* SOSi Linguist Management Dashboard (src/sosi_dashboard.py).             *)
(*                                                                         *)
(* One run of the Streamlit script is modelled as a sequence of steps:     *)
(* Main (load_data), then the five tabs in the order the script renders    *)
(* them.  An uncaught Python exception ends the run (pc = "crashed").      *)
(* The uploaded files and the widget values are the inputs of a run.       *)
(***************************************************************************)
EXTENDS Integers, Sequences, FiniteSets, TLC

VARIABLES
    master_file,     \* uploaded master workbook (line 50)
    analysis_file,   \* uploaded analysis workbook (line 55)
    linguist_file,   \* uploaded linguist workbook (line 60)
    status_filter,   \* selectbox "Filter by Status" (line 206)
    data_selection,  \* selectbox "Select Dataset" (line 386)
    search_term,     \* text_input of the search box (line 400), a sequence of characters
    pc,              \* position of the script
    error,           \* the exception that ended the run, "" when none
    data,            \* the mapping load_data returned (line 122)
    loaded,          \* a copy of that mapping, taken when load_data returned
    overview,        \* Tab 1 metrics
    language_stats,  \* Tab 2 result of process_language_stats, and the table displayed
    gap_languages,   \* Tab 2 "Top Languages Without Linguists"
    trends,          \* Tab 3 monthly_requests, day_counts, priority_counts
    critical_gaps,   \* Tab 4 gap table
    location_counts, \* Tab 4 geographic distribution
    raw_view,        \* Tab 5 table shown by the Raw Data View
    search           \* Tab 5 search result

vars == <<master_file, analysis_file, linguist_file, status_filter, data_selection,
          search_term, pc, error, data, loaded, overview, language_stats,
          gap_languages, trends, critical_gaps, location_counts, raw_view, search>>

-----------------------------------------------------------------------------
(* Bounds of the model.                                                    *)

\* longest arbitrary analysis table
MaxRows == 3
\* longest run of identical unfulfilled rows
MaxRepeat == 10
\* longest master table
MaxMasterRows == 3
\* longest analysis table that is searched
MaxSearchRows == 2
\* longest search term
MaxTermLen == 2

-----------------------------------------------------------------------------
(* Cells, rows and tables (pandas DataFrame).                              *)

\* A cell: a string, an integer, a Timestamp (days since 1970-01-01), NaN or NaT.
Str(s) == [k |-> "str", s |-> s, d |-> 0]
IntCell(n) == [k |-> "int", s |-> "", d |-> n]
Ts(d) == [k |-> "ts", s |-> "", d |-> d]
NaN == [k |-> "nan", s |-> "", d |-> 0]
NaT == [k |-> "nat", s |-> "", d |-> 0]

\* the characters of the strings the model draws
Chars(s) ==
    CASE s = "Farsi" -> <<"F", "a", "r", "s", "i">>
      [] s = "Spanish" -> <<"S", "p", "a", "n", "i", "s", "h">>
      [] s = "YES" -> <<"Y", "E", "S">>
      [] s = "NO" -> <<"N", "O">>
      [] s = "MAYBE" -> <<"M", "A", "Y", "B", "E">>
      [] s = "N.Y" -> <<"N", ".", "Y">>
      [] s = "LA" -> <<"L", "A">>
      [] s = "s*" -> <<"s", "*">>

UpperCase == <<"A", "B", "C", "D", "E", "F", "G", "H", "I", "J", "K", "L", "M",
               "N", "O", "P", "Q", "R", "S", "T", "U", "V", "W", "X", "Y", "Z">>
LowerCase == <<"a", "b", "c", "d", "e", "f", "g", "h", "i", "j", "k", "l", "m",
               "n", "o", "p", "q", "r", "s", "t", "u", "v", "w", "x", "y", "z">>

\* ord(ch) of the characters the model draws
ord(ch) ==
    IF \E i \in DOMAIN UpperCase : UpperCase[i] = ch
    THEN 64 + (CHOOSE i \in DOMAIN UpperCase : UpperCase[i] = ch)
    ELSE IF \E i \in DOMAIN LowerCase : LowerCase[i] = ch
         THEN 96 + (CHOOSE i \in DOMAIN LowerCase : LowerCase[i] = ch)
         ELSE CASE ch = "(" -> 40
                [] ch = "*" -> 42
                [] ch = "." -> 46

\* a < b for two Python strings, given as their characters: the first differing
\* character decides, a proper prefix is the smaller one
RECURSIVE CharsLess(_, _, _)
CharsLess(a, b, i) ==
    IF i > Len(b) THEN FALSE
    ELSE IF i > Len(a) THEN TRUE
    ELSE IF a[i] # b[i] THEN ord(a[i]) < ord(b[i])
    ELSE CharsLess(a, b, i + 1)

\* a <= b for two string cells
CellLeq(a, b) == a = b \/ CharsLess(Chars(a.s), Chars(b.s), 1)

\* pandas isna()
IsNull(c) == c.k \in {"nan", "nat"}

Range(f) == {f[i] : i \in DOMAIN f}

\* A DataFrame: its column names and its rows, each row a function column -> cell.
Table(cols, rows) == [cols |-> cols, rows |-> rows]

\* pd.DataFrame()
EmptyFrame == Table({}, <<>>)

\* df[c]
Column(df, c) == [i \in 1..Len(df.rows) |-> df.rows[i][c]]

\* df[mask]: the rows whose position is in keep, in their order
RECURSIVE TakeFrom(_, _, _)
TakeFrom(rows, keep, i) ==
    IF i > Len(rows) THEN <<>>
    ELSE (IF i \in keep THEN <<rows[i]>> ELSE <<>>) \o TakeFrom(rows, keep, i + 1)

Take(df, keep) == Table(df.cols, TakeFrom(df.rows, keep, 1))

\* series == value, elementwise (NaN equals nothing)
CellEq(c, v) == c.k = "str" /\ c.s = v

\* (series == value).sum()
CountEq(series, v) == Cardinality({i \in DOMAIN series : CellEq(series[i], v)})

\* number of occurrences of cell c in a series
Count(series, c) == Cardinality({i \in DOMAIN series : series[i] = c})

\* position of the first occurrence of cell c in a series
FirstSeen(series, c) == CHOOSE i \in DOMAIN series :
    series[i] = c /\ \A j \in DOMAIN series : series[j] = c => i <= j

\* the distinct non-null values of a series
Uniques(series) == {c \in Range(series) : ~IsNull(c)}

\* series.nunique()
NUnique(series) == Cardinality(Uniques(series))

\* series.value_counts(): nulls dropped, one entry per distinct value, ordered by
\* descending count, equal counts in first-seen order
RECURSIVE SortCounts(_, _)
SortCounts(series, left) ==
    IF left = {} THEN <<>>
    ELSE LET best == CHOOSE c \in left : \A o \in left :
                        \/ Count(series, c) > Count(series, o)
                        \/ /\ Count(series, c) = Count(series, o)
                           /\ FirstSeen(series, c) <= FirstSeen(series, o)
         IN <<[value |-> best, count |-> Count(series, best)]>>
                \o SortCounts(series, left \ {best})

\* the counts in ascending order
value_counts_ascending(series) ==
    LET sorted == SortCounts(series, Uniques(series))
    IN [i \in 1..Len(sorted) |-> sorted[Len(sorted) + 1 - i]]

value_counts(series) == SortCounts(series, Uniques(series))

\* series.head(n)
head(s, n) == SubSeq(s, 1, IF Len(s) < n THEN Len(s) ELSE n)

\* df[df[col] == v]
WhereEq(df, col, v) == Take(df, {i \in 1..Len(df.rows) : CellEq(df.rows[i][col], v)})

\* df.dropna(subset=[col])
dropna(df, col) == Take(df, {i \in 1..Len(df.rows) : ~IsNull(df.rows[i][col])})

\* df.empty
IsEmpty(df) == df.cols = {} \/ Len(df.rows) = 0

-----------------------------------------------------------------------------
(* Uploaded files and load_data.                                           *)

\* No file uploaded (None), a file that is no spreadsheet, or a workbook: a
\* non-empty sequence of named sheets, the first one being the default sheet.
NoFile == [kind |-> "none", sheets |-> <<>>]
Corrupt == [kind |-> "corrupt", sheets |-> <<>>]
Workbook(sheets) == [kind |-> "xlsx", sheets |-> sheets]
Sheet(name, table) == [name |-> name, table |-> table]

\* the outcome of a read: a table, or an exception
Ok(table) == [ok |-> TRUE, table |-> table]
Raised == [ok |-> FALSE, table |-> EmptyFrame]

\* the texts pd.read_excel reads as a missing value (keep_default_na=True)
na_values ==
    {"", "#N/A", "#N/A N/A", "#NA", "-1.#IND", "-1.#QNAN", "-NaN", "-nan", "1.#IND",
     "1.#QNAN", "<NA>", "N/A", "NA", "NULL", "NaN", "None", "n/a", "nan", "null"}

\* a cell of a sheet as pd.read_excel returns it
ReadCell(c) == IF c.k = "str" /\ c.s \in na_values THEN NaN ELSE c

\* a sheet as pd.read_excel returns it: the frame of its cells, the NA texts missing
ReadSheet(table) ==
    Table(table.cols,
          [i \in 1..Len(table.rows) |-> [c \in table.cols |-> ReadCell(table.rows[i][c])]])

\* pd.read_excel(f): the default (first) sheet
read_excel(f) ==
    IF f.kind = "xlsx" THEN Ok(ReadSheet(f.sheets[1].table)) ELSE Raised

\* pd.read_excel(f, sheet_name=name): raises when the workbook has no such sheet
read_excel_sheet(f, name) ==
    IF f.kind = "xlsx" /\ \E i \in DOMAIN f.sheets : f.sheets[i].name = name
    THEN Ok(ReadSheet(f.sheets[CHOOSE i \in DOMAIN f.sheets : f.sheets[i].name = name].table))
    ELSE Raised

\* str.strip() on the column names the model draws
strip(name) ==
    CASE name = " Row Added " -> "Row Added"
      [] name = "Priority " -> "Priority"
      [] OTHER -> name

\* data['master'].columns = data['master'].columns.str.strip()
StripColumns(df) ==
    Table({strip(c) : c \in df.cols},
          [i \in 1..Len(df.rows) |->
              [c \in {strip(x) : x \in df.cols} |->
                  df.rows[i][CHOOSE x \in df.cols : strip(x) = c]]])

EmptyMap == [key \in {} |-> EmptyFrame]
Put(map, key, table) == (key :> table) @@ map

\* the outcome of load_data: the mapping, or an exception
Returned(map) == [raised |-> FALSE, data |-> map]
LoadRaised == [raised |-> TRUE, data |-> EmptyMap]

\* lines 81-84
LoadMaster(map, f) ==
    IF f.kind = "none" THEN Returned(map)
    ELSE IF read_excel(f).ok
         THEN Returned(Put(map, "master", StripColumns(read_excel(f).table)))
         ELSE LoadRaised

\* lines 88-90, the try block: the mapping it leaves behind and whether it raised.
\* The assignment of line 89 stands when the read of line 90 raises.
TryNamedSheets(map, f) ==
    LET historical == read_excel_sheet(f, "All Historical Data")
        summary == read_excel_sheet(f, "Summary")
    IN IF ~historical.ok THEN [raised |-> TRUE, data |-> map]
       ELSE IF ~summary.ok
            THEN [raised |-> TRUE, data |-> Put(map, "analysis", historical.table)]
            ELSE Returned(Put(Put(map, "analysis", historical.table),
                              "summary", summary.table))

\* an except block that keeps the 'analysis' table the try block had assigned
ExceptKeepAssigned(map, f) ==
    IF "analysis" \in DOMAIN map THEN Returned(map)
    ELSE IF read_excel(f).ok
         THEN Returned(Put(map, "analysis", read_excel(f).table))
         ELSE LoadRaised

\* lines 91-92, the except block: the default sheet replaces data['analysis']
ExceptDefaultSheet(map, f) ==
    IF read_excel(f).ok
    THEN Returned(Put(map, "analysis", read_excel(f).table))
    ELSE LoadRaised

\* lines 86-92
LoadAnalysis(map, f) ==
    IF f.kind = "none" THEN Returned(map)
    ELSE IF TryNamedSheets(map, f).raised
         THEN ExceptDefaultSheet(TryNamedSheets(map, f).data, f)
         ELSE TryNamedSheets(map, f)

\* lines 94-95
LoadLinguists(map, f) ==
    IF f.kind = "none" THEN Returned(map)
    ELSE IF read_excel(f).ok
         THEN Returned(Put(map, "linguists", read_excel(f).table))
         ELSE LoadRaised

\* load_data(master_file, analysis_file, linguist_file)
load_data(mf, af, lf) ==
    LET m == LoadMaster(EmptyMap, mf)
    IN IF m.raised THEN LoadRaised
       ELSE LET a == LoadAnalysis(m.data, af)
            IN IF a.raised THEN LoadRaised
               ELSE LoadLinguists(a.data, lf)

-----------------------------------------------------------------------------
(* process_language_stats (lines 100-117).                                 *)

\* lines 106-107: value_counts().reset_index() with the two column names
LanguageCounts(df) ==
    LET vc == value_counts(Column(df, "Language"))
    IN Table({"Language", "Request Count"},
             [i \in 1..Len(vc) |->
                 ("Language" :> vc[i].value) @@ ("Request Count" :> IntCell(vc[i].count))])

\* the label with the test (x != 'NO').any() in place of (x == 'YES').any()
SourcingLabelNotNo(series) ==
    IF \E i \in DOMAIN series : ~CellEq(series[i], "NO")
    THEN "Sourceable" ELSE "Not Sourceable"

\* line 112, the lambda: 'Sourceable' if (x == 'YES').any() else 'Not Sourceable'
SourcingLabel(series) ==
    IF \E i \in DOMAIN series : CellEq(series[i], "YES")
    THEN "Sourceable" ELSE "Not Sourceable"

\* the keys of df.groupby(col): the distinct non-null values, sorted ascending
\* (groupby's default sort=True)
RECURSIVE KeysFrom(_)
KeysFrom(left) ==
    IF left = {} THEN <<>>
    ELSE LET least == CHOOSE c \in left : \A o \in left : CellLeq(c, o)
         IN <<least>> \o KeysFrom(left \ {least})

GroupKeys(df, col) == KeysFrom(Uniques(Column(df, col)))

\* the series of column `of` within the group of `key`
Group(df, col, key, of) ==
    Column(Take(df, {i \in 1..Len(df.rows) : df.rows[i][col] = key}), of)

\* lines 111-114: one row (Language, Status) per group
SourcingStatus(df) ==
    LET keys == GroupKeys(df, "Language")
    IN Table({"Language", "Status"},
             [i \in 1..Len(keys) |->
                 ("Language" :> keys[i])
                 @@ ("Status" :> Str(SourcingLabel(Group(df, "Language", keys[i], "Has Linguist?"))))])

\* left.merge(right, on=on, how='left'): every left row once per matching right
\* row, and once with NaN in the right's columns when none matches
RECURSIVE MergeFrom(_, _, _, _)
MergeFrom(left, right, on, i) ==
    IF i > Len(left.rows) THEN <<>>
    ELSE LET matches == TakeFrom(right.rows,
                 {j \in 1..Len(right.rows) : right.rows[j][on] = left.rows[i][on]}, 1)
             added == right.cols \ left.cols
         IN (IF matches = <<>>
             THEN <<left.rows[i] @@ [c \in added |-> NaN]>>
             ELSE [j \in 1..Len(matches) |-> left.rows[i] @@ [c \in added |-> matches[j][c]]])
            \o MergeFrom(left, right, on, i + 1)

merge_left(left, right, on) ==
    Table(left.cols \cup right.cols, MergeFrom(left, right, on, 1))

process_language_stats(df) ==
    IF "Language" \notin df.cols THEN EmptyFrame
    ELSE IF "Has Linguist?" \in df.cols
         THEN merge_left(LanguageCounts(df), SourcingStatus(df), "Language")
         ELSE LanguageCounts(df)

-----------------------------------------------------------------------------
(* Tab 1: Overview (lines 134-193).                                        *)

\* line 172
TopLanguages == 10

\* the rate without the guard on total_requests
FulfillmentRateUnguarded(fulfilled, total_requests) ==
    [num |-> fulfilled * 100, den |-> total_requests]

\* line 151: (fulfilled / total_requests * 100) if total_requests > 0 else 0,
\* kept as the fraction num/den
FulfillmentRate(fulfilled, total_requests) ==
    IF total_requests > 0
    THEN [num |-> fulfilled * 100, den |-> total_requests]
    ELSE [num |-> 0, den |-> 1]

\* lines 186-189: the slices of the pie, each named by its label
StatusDistribution(df) ==
    LET vc == value_counts(Column(df, "Has Linguist?"))
    IN [i \in 1..Len(vc) |->
           [name |-> IF CellEq(vc[i].value, "YES") THEN "Sourceable" ELSE "Not Sourceable",
            count |-> vc[i].count]]

NoOverview ==
    [shown |-> FALSE, total_requests |-> 0,
     has_status |-> FALSE, fulfilled |-> 0, fulfillment_rate |-> [num |-> 0, den |-> 1],
     unfulfilled |-> 0, status_counts |-> <<>>,
     has_language |-> FALSE, unique_languages |-> 0, top_languages |-> <<>>]

\* lines 138-193
Overview(df) ==
    LET has_status == "Has Linguist?" \in df.cols
        has_language == "Language" \in df.cols
        total_requests == Len(df.rows)
        fulfilled == IF has_status THEN CountEq(Column(df, "Has Linguist?"), "YES") ELSE 0
    IN [shown |-> TRUE,
        total_requests |-> total_requests,
        has_status |-> has_status,
        fulfilled |-> fulfilled,
        fulfillment_rate |-> IF has_status THEN FulfillmentRate(fulfilled, total_requests)
                             ELSE [num |-> 0, den |-> 1],
        unfulfilled |-> IF has_status THEN CountEq(Column(df, "Has Linguist?"), "NO") ELSE 0,
        status_counts |-> IF has_status THEN StatusDistribution(df) ELSE <<>>,
        has_language |-> has_language,
        unique_languages |-> IF has_language THEN NUnique(Column(df, "Language")) ELSE 0,
        top_languages |-> IF has_language
                          THEN head(value_counts(Column(df, "Language")), TopLanguages)
                          ELSE <<>>]

-----------------------------------------------------------------------------
(* Tab 2: Language Analysis (lines 196-245).                               *)

\* line 237
TopGapLanguages == 15

\* lines 212-213
ApplyStatusFilter(stats, filter) ==
    IF filter # "All" /\ "Status" \in stats.cols
    THEN WhereEq(stats, "Status", filter)
    ELSE stats

\* lines 234-236 and 319-321: the unfulfilled rows are looked at
HasUnfulfilled(df) ==
    "Has Linguist?" \in df.cols /\ ~IsEmpty(WhereEq(df, "Has Linguist?", "NO"))

\* no_linguist_df['Language'] (lines 237 and 322) raises KeyError without the column
GapRaises(df) == HasUnfulfilled(df) /\ "Language" \notin df.cols

\* line 237: no_linguist_df['Language'].value_counts().head(15)
GapLanguages(df) ==
    IF HasUnfulfilled(df)
    THEN head(value_counts(Column(WhereEq(df, "Has Linguist?", "NO"), "Language")),
              TopGapLanguages)
    ELSE <<>>

-----------------------------------------------------------------------------
(* Tab 4: Gap Analysis (lines 309-355).                                    *)

\* line 323
GapThreshold == 5
\* line 326
CriticalThreshold == 10
\* line 326
HighThreshold == 5
\* line 346
TopLocations == 10

\* the tiers with the comparison x > 10 in place of x >= 10
PriorityTierStrict(x) ==
    IF x > CriticalThreshold THEN "CRITICAL"
    ELSE IF x >= HighThreshold THEN "HIGH" ELSE "MEDIUM"

\* line 326, the lambda
PriorityTier(x) ==
    IF x >= CriticalThreshold THEN "CRITICAL"
    ELSE IF x >= HighThreshold THEN "HIGH" ELSE "MEDIUM"

\* gap_summary[gap_summary >= 5]
AtLeast(counts, n) ==
    LET kept == {i \in 1..Len(counts) : counts[i].count >= n}
    IN TakeFrom(counts, kept, 1)

\* lines 319-327: the gap table, empty of columns when nothing is displayed
CriticalGaps(df) ==
    IF HasUnfulfilled(df)
    THEN LET gap_summary == value_counts(Column(WhereEq(df, "Has Linguist?", "NO"), "Language"))
             critical == AtLeast(gap_summary, GapThreshold)
         IN Table({"Language", "Unfulfilled Requests", "Priority"},
                  [i \in 1..Len(critical) |->
                      ("Language" :> critical[i].value)
                      @@ ("Unfulfilled Requests" :> IntCell(critical[i].count))
                      @@ ("Priority" :> Str(PriorityTier(critical[i].count)))])
    ELSE EmptyFrame

\* lines 343-346
LocationCounts(df) ==
    IF "Location" \in df.cols \/ "Notes" \in df.cols
    THEN head(value_counts(Column(df, IF "Location" \in df.cols THEN "Location" ELSE "Notes")),
              TopLocations)
    ELSE <<>>

-----------------------------------------------------------------------------
(* Tab 3: Trends (lines 248-306).                                          *)

\* line 255
date_columns == {"Date of request", "Hearing Date", "Row Added"}

\* line 282
day_order == <<"Monday", "Tuesday", "Wednesday", "Thursday", "Friday", "Saturday", "Sunday">>

\* The date a text cell parses to, for the texts the model draws; NaT for the rest.
ParseDate(s) ==
    CASE s = "1970-01-05" -> Ts(4)
      [] s = "1970-02-01" -> Ts(31)
      [] OTHER -> NaT

\* pd.to_datetime(cell, errors='coerce')
to_datetime(c) ==
    CASE c.k = "ts" -> c
      [] c.k = "str" -> ParseDate(c.s)
      [] OTHER -> NaT

\* lines 256-258: df[col] = pd.to_datetime(df[col], errors='coerce')
ConvertDates(df) ==
    Table(df.cols,
          [i \in 1..Len(df.rows) |->
              [c \in df.cols |-> IF c \in date_columns
                                 THEN to_datetime(df.rows[i][c])
                                 ELSE df.rows[i][c]]])

\* Timestamp.day_name(): 1970-01-01 was a Thursday
day_name(d) == day_order[((d + 3) % 7) + 1]

\* Timestamp.to_period('M').astype(str), "YYYY-MM" kept as the number YYYYMM
\* (the civil date of a day count, proleptic Gregorian calendar)
Month(d) ==
    LET z == d + 719468
        era == z \div 146097
        doe == z - era * 146097
        yoe == (doe - doe \div 1460 + doe \div 36524 - doe \div 146096) \div 365
        doy == doe - (365 * yoe + yoe \div 4 - yoe \div 100)
        mp == (5 * doy + 2) \div 153
        m == IF mp < 10 THEN mp + 3 ELSE mp - 9
        y == yoe + era * 400 + (IF m <= 2 THEN 1 ELSE 0)
    IN y * 100 + m

\* ascending order of a finite set of integers
RECURSIVE Ascending(_)
Ascending(S) ==
    IF S = {} THEN <<>>
    ELSE LET least == CHOOSE x \in S : \A y \in S : x <= y
         IN <<least>> \o Ascending(S \ {least})

\* lines 263-264: df_time.groupby('Month').size(), keys ascending
MonthlyRequests(df_time) ==
    LET months == [i \in 1..Len(df_time.rows) |-> Month(df_time.rows[i]["Row Added"].d)]
        keys == Ascending(Range(months))
    IN [i \in 1..Len(keys) |->
           [Month |-> keys[i],
            Requests |-> Cardinality({j \in DOMAIN months : months[j] = keys[i]})]]

\* series.reindex(labels, fill_value=fill) of a value_counts() result
reindex(counts, labels, fill) ==
    [i \in 1..Len(labels) |->
        [value |-> labels[i],
         count |-> IF \E j \in 1..Len(counts) : counts[j].value = Str(labels[i])
                   THEN counts[CHOOSE j \in 1..Len(counts) : counts[j].value = Str(labels[i])].count
                   ELSE fill]]

\* the day counts without the reindex over day_order
DayCountsPresentOnly(df_time) ==
    value_counts([i \in 1..Len(df_time.rows) |->
                     Str(day_name(df_time.rows[i]["Row Added"].d))])

\* lines 281-283
DayCounts(df_time) ==
    LET day_of_week == [i \in 1..Len(df_time.rows) |->
                           Str(day_name(df_time.rows[i]["Row Added"].d))]
    IN reindex(value_counts(day_of_week), day_order, 0)

NoTrends ==
    [shown |-> FALSE, has_row_added |-> FALSE, monthly_requests |-> <<>>,
     day_counts |-> <<>>, priority_counts |-> <<>>]

\* lines 260-306, on the converted table
Trends(df) ==
    LET has_row_added == "Row Added" \in df.cols
        df_time == IF has_row_added THEN dropna(df, "Row Added") ELSE EmptyFrame
    IN [shown |-> TRUE,
        has_row_added |-> has_row_added,
        monthly_requests |-> IF has_row_added THEN MonthlyRequests(df_time) ELSE <<>>,
        day_counts |-> IF has_row_added THEN DayCounts(df_time) ELSE <<>>,
        priority_counts |-> IF "Priority" \in df.cols
                            THEN value_counts(Column(df, "Priority")) ELSE <<>>]

-----------------------------------------------------------------------------
(* Tab 5: Detailed Reports (lines 358-412).                                *)

\* lines 391-396: the table the Raw Data View shows, none when nothing is shown
RawDataView(map, selection) ==
    LET key == CASE selection = "Master Data" -> "master"
                 [] selection = "Analysis Data" -> "analysis"
                 [] OTHER -> "linguists"
    IN IF key \in DOMAIN map
       THEN [shown |-> TRUE, key |-> key, table |-> map[key]]
       ELSE [shown |-> FALSE, key |-> "", table |-> EmptyFrame]

\* x.astype(str) of a cell of the analysis table: str(NaN) is 'nan'
astype_str(c) ==
    IF c.k = "str" THEN Chars(c.s) ELSE <<"n", "a", "n">>

\* str.lower() of one character
lower(ch) ==
    IF \E i \in DOMAIN UpperCase : UpperCase[i] = ch
    THEN LowerCase[CHOOSE i \in DOMAIN UpperCase : UpperCase[i] = ch]
    ELSE ch

\* re.compile(term) raises re.error: a '(' that is never closed, a '*' with
\* nothing to repeat, or a '*' after a '*' (the model draws no other operator)
RegexInvalid(term) ==
    \/ \E i \in DOMAIN term : term[i] = "("
    \/ (term # <<>> /\ term[1] = "*")
    \/ \E i \in 1..(Len(term) - 1) : term[i] = "*" /\ term[i + 1] = "*"

\* does the character ch match the pattern character pat under re.IGNORECASE
AtomMatches(pat, ch) == pat = "." \/ lower(pat) = lower(ch)

\* can the pattern term[k..] match text starting at position j
RECURSIVE MatchAt(_, _, _, _)
MatchAt(term, k, text, j) ==
    IF k > Len(term) THEN TRUE
    ELSE IF k < Len(term) /\ term[k + 1] = "*"
         THEN \/ MatchAt(term, k + 2, text, j)
              \/ /\ j <= Len(text)
                 /\ AtomMatches(term[k], text[j])
                 /\ MatchAt(term, k, text, j + 1)
         ELSE /\ j <= Len(text)
              /\ AtomMatches(term[k], text[j])
              /\ MatchAt(term, k + 1, text, j + 1)

\* series.str.contains(term, case=False): re.search of the term as a regular expression
str_contains(text, term) ==
    \E j \in 1..(Len(text) + 1) : MatchAt(term, 1, text, j)

\* line 405: the mask, the rows in which some column's string form matches
SearchMask(df, term) ==
    {i \in 1..Len(df.rows) : \E c \in df.cols : str_contains(astype_str(df.rows[i][c]), term)}

\* line 405 raises when the term does not compile (df.apply calls the lambda on
\* every row; on a table without rows the error of its trial call is swallowed)
SearchRaises(df, term) == RegexInvalid(term) /\ Len(df.rows) > 0

NoSearch == [performed |-> FALSE, found |-> EmptyFrame]

\* lines 402-412
SearchRecords(map, term) ==
    IF term # <<>> /\ "analysis" \in DOMAIN map
    THEN [performed |-> TRUE,
          found |-> IF RegexInvalid(term) THEN Take(map["analysis"], {})
                    ELSE Take(map["analysis"], SearchMask(map["analysis"], term))]
    ELSE NoSearch

-----------------------------------------------------------------------------
(* The inputs of a run.                                                    *)

SeqUpTo(S, n) == UNION {[1..k -> S] : k \in 0..n}

RECURSIVE Repeat(_, _)
Repeat(row, n) == IF n = 0 THEN <<>> ELSE <<row>> \o Repeat(row, n - 1)

Row(language, status) == ("Language" :> language) @@ ("Has Linguist?" :> status)

LanguageCells == {Str("Farsi"), Str("Spanish"), NaN}
StatusCells == {Str("YES"), Str("NO"), Str("MAYBE")}

\* the rows over a set of columns of the analysis table
RowsOver(cols) ==
    {r \in [cols -> LanguageCells \cup StatusCells] :
        \A c \in cols : r[c] \in (IF c = "Language" THEN LanguageCells ELSE StatusCells)}

\* every analysis table of at most MaxRows rows, with or without each expected column
ArbitraryTables ==
    {EmptyFrame} \cup
    UNION {{Table(cols, rows) : rows \in SeqUpTo(RowsOver(cols), MaxRows)} :
              cols \in (SUBSET {"Language", "Has Linguist?"}) \ {{}}}

\* analysis tables with long runs of unfulfilled requests of two languages
GapTables ==
    {Table({"Language", "Has Linguist?"},
           Repeat(Row(Str("Farsi"), Str("NO")), n1)
           \o Repeat(Row(Str("Spanish"), Str("YES")), n3)
           \o Repeat(Row(Str("Spanish"), Str("NO")), n2)) :
        n1 \in 0..MaxRepeat, n2 \in 0..MaxRepeat, n3 \in 0..1}

\* analysis tables with a free-text column, searched
SearchRows ==
    {("Language" :> l) @@ ("Notes" :> n) :
        l \in {Str("Farsi"), Str("Spanish")}, n \in {Str("N.Y"), Str("s*"), NaN}}
SearchTables ==
    {Table({"Language", "Notes"}, rows) : rows \in SeqUpTo(SearchRows, MaxSearchRows) \ {<<>>}}
SearchTerms == SeqUpTo({"s", "Y", ".", "*", "("}, MaxTermLen) \ {<<>>}

\* master tables: every date column holds the drawn cells, Priority alternates
DateCells == {Ts(0), Ts(31), Str("1970-01-05"), Str("pending"), Str("n/a"), NaN}
MasterColumnSets ==
    {{"Row Added"}, {" Row Added ", "Priority "}, {"Hearing Date", "Priority"},
     {"Date of request", "Row Added"}}
MasterTables ==
    UNION {{Table(cols,
                  [i \in 1..Len(cells) |->
                      [c \in cols |-> IF strip(c) \in date_columns THEN cells[i]
                                      ELSE IF i % 2 = 1 THEN Str("URGENT") ELSE Str("NORMAL")]]) :
              cells \in SeqUpTo(DateCells, MaxMasterRows)} :
           cols \in MasterColumnSets}

\* fixed tables of the workbooks whose sheets are what varies
HistoricalTable == Table({"Language", "Has Linguist?"}, <<Row(Str("Farsi"), Str("NO"))>>)
SummaryTable == Table({"Language"}, <<("Language" :> Str("Spanish"))>>)
OtherTable == Table({"Language", "Has Linguist?"}, <<Row(Str("Spanish"), Str("YES"))>>)
LinguistTable == Table({"Language"}, <<("Language" :> Str("Farsi"))>>)
MasterTable ==
    Table({"Row Added"},
          <<("Row Added" :> Str("pending")), ("Row Added" :> Ts(0)), ("Row Added" :> Str("n/a"))>>)

SheetOf(name) ==
    Sheet(name, CASE name = "All Historical Data" -> HistoricalTable
                  [] name = "Summary" -> SummaryTable
                  [] OTHER -> OtherTable)

\* workbooks with every choice and order of differently named sheets
AnalysisWorkbooks ==
    LET names == {"All Historical Data", "Summary", "Sheet1"}
        orders == {o \in SeqUpTo(names, Cardinality(names)) \ {<<>>} :
                      \A i, j \in DOMAIN o : i # j => o[i] # o[j]}
    IN {Workbook([i \in DOMAIN o |-> SheetOf(o[i])]) : o \in orders}

OneSheet(table) == Workbook(<<Sheet("Sheet1", table)>>)

StatusFilters == {"All", "Sourceable", "Not Sourceable"}
DataSelections == {"Master Data", "Analysis Data", "Linguist Data"}

\* an analysis table of any content
InitLanguages ==
    /\ master_file = NoFile
    /\ analysis_file \in {OneSheet(t) : t \in ArbitraryTables}
    /\ linguist_file = NoFile
    /\ status_filter = "Sourceable"
    /\ data_selection = "Analysis Data"
    /\ search_term = <<>>

\* an analysis table with many unfulfilled requests
InitGaps ==
    /\ master_file = NoFile
    /\ analysis_file \in {OneSheet(t) : t \in GapTables}
    /\ linguist_file = NoFile
    /\ status_filter \in StatusFilters
    /\ data_selection = "Analysis Data"
    /\ search_term = <<>>

\* any combination of missing, unreadable and readable files
InitFiles ==
    /\ master_file \in {NoFile, Corrupt, OneSheet(MasterTable)}
    /\ analysis_file \in {NoFile, Corrupt} \cup AnalysisWorkbooks
    /\ linguist_file \in {NoFile, Corrupt, OneSheet(LinguistTable)}
    /\ status_filter = "All"
    /\ data_selection \in DataSelections
    /\ search_term = <<>>

\* a master table with dates
InitTrends ==
    /\ master_file \in {OneSheet(t) : t \in MasterTables}
    /\ analysis_file = NoFile
    /\ linguist_file = NoFile
    /\ status_filter = "All"
    /\ data_selection = "Master Data"
    /\ search_term = <<>>

\* a search of the analysis table
InitSearch ==
    /\ master_file = NoFile
    /\ analysis_file \in {OneSheet(t) : t \in SearchTables}
    /\ linguist_file = NoFile
    /\ status_filter = "All"
    /\ data_selection = "Analysis Data"
    /\ search_term \in SearchTerms

NoLanguageStats == [shown |-> FALSE, stats |-> EmptyFrame, displayed |-> EmptyFrame]
NoRawView == [shown |-> FALSE, key |-> "", table |-> EmptyFrame]

Init ==
    /\ InitLanguages \/ InitGaps \/ InitFiles \/ InitTrends \/ InitSearch
    /\ pc = "start"
    /\ error = ""
    /\ data = EmptyMap
    /\ loaded = EmptyMap
    /\ overview = NoOverview
    /\ language_stats = NoLanguageStats
    /\ gap_languages = <<>>
    /\ trends = NoTrends
    /\ critical_gaps = EmptyFrame
    /\ location_counts = <<>>
    /\ raw_view = NoRawView
    /\ search = NoSearch

-----------------------------------------------------------------------------
(* The steps of a run.                                                     *)

inputs == <<master_file, analysis_file, linguist_file, status_filter, data_selection,
            search_term>>

\* an uncaught exception ends the run
Crash(name) == pc' = "crashed" /\ error' = name

\* lines 120-122 and 414-416: load the files, or show the welcome screen
Main ==
    /\ pc = "start"
    /\ IF master_file.kind = "none" /\ analysis_file.kind = "none"
       THEN /\ pc' = "welcome"
            /\ UNCHANGED <<error, data, loaded>>
       ELSE IF load_data(master_file, analysis_file, linguist_file).raised
            THEN /\ Crash("read_excel")
                 /\ UNCHANGED <<data, loaded>>
            ELSE /\ data' = load_data(master_file, analysis_file, linguist_file).data
                 /\ loaded' = data'
                 /\ pc' = "tab1"
                 /\ UNCHANGED error
    /\ UNCHANGED <<inputs, overview, language_stats, gap_languages, trends,
                   critical_gaps, location_counts, raw_view, search>>

\* lines 134-193
Tab1Overview ==
    /\ pc = "tab1"
    /\ pc' = "tab2"
    /\ overview' = IF "analysis" \in DOMAIN data THEN Overview(data["analysis"]) ELSE overview
    /\ UNCHANGED <<inputs, error, data, loaded, language_stats, gap_languages, trends,
                   critical_gaps, location_counts, raw_view, search>>

\* lines 196-245
Tab2LanguageAnalysis ==
    /\ pc = "tab2"
    /\ IF "analysis" \in DOMAIN data
       THEN /\ language_stats' =
                   [shown |-> TRUE,
                    stats |-> process_language_stats(data["analysis"]),
                    displayed |-> ApplyStatusFilter(process_language_stats(data["analysis"]),
                                                    status_filter)]
            /\ IF GapRaises(data["analysis"])
               THEN /\ Crash("KeyError")
                    /\ UNCHANGED gap_languages
               ELSE /\ gap_languages' = GapLanguages(data["analysis"])
                    /\ pc' = "tab3"
                    /\ UNCHANGED error
       ELSE /\ pc' = "tab3"
            /\ UNCHANGED <<error, language_stats, gap_languages>>
    /\ UNCHANGED <<inputs, data, loaded, overview, trends, critical_gaps,
                   location_counts, raw_view, search>>

\* lines 248-306: the conversion of line 258 assigns into data['master'] itself
Tab3Trends ==
    /\ pc = "tab3"
    /\ pc' = "tab4"
    /\ IF "master" \in DOMAIN data
       THEN /\ data' = [data EXCEPT !["master"] = ConvertDates(data["master"])]
            /\ trends' = Trends(ConvertDates(data["master"]))
       ELSE UNCHANGED <<data, trends>>
    /\ UNCHANGED <<inputs, error, loaded, overview, language_stats, gap_languages,
                   critical_gaps, location_counts, raw_view, search>>

\* lines 309-355
Tab4GapAnalysis ==
    /\ pc = "tab4"
    /\ IF "analysis" \in DOMAIN data
       THEN IF GapRaises(data["analysis"])
            THEN /\ Crash("KeyError")
                 /\ UNCHANGED <<critical_gaps, location_counts>>
            ELSE /\ critical_gaps' = CriticalGaps(data["analysis"])
                 /\ location_counts' = LocationCounts(data["analysis"])
                 /\ pc' = "tab5"
                 /\ UNCHANGED error
       ELSE /\ pc' = "tab5"
            /\ UNCHANGED <<error, critical_gaps, location_counts>>
    /\ UNCHANGED <<inputs, data, loaded, overview, language_stats, gap_languages,
                   trends, raw_view, search>>

\* lines 358-412
Tab5DetailedReports ==
    /\ pc = "tab5"
    /\ raw_view' = RawDataView(data, data_selection)
    /\ IF search_term # <<>> /\ "analysis" \in DOMAIN data
             /\ SearchRaises(data["analysis"], search_term)
       THEN /\ Crash("re.error")
            /\ UNCHANGED search
       ELSE /\ search' = SearchRecords(data, search_term)
            /\ pc' = "done"
            /\ UNCHANGED error
    /\ UNCHANGED <<inputs, data, loaded, overview, language_stats, gap_languages,
                   trends, critical_gaps, location_counts>>

Next ==
    \/ Main
    \/ Tab1Overview
    \/ Tab2LanguageAnalysis
    \/ Tab3Trends
    \/ Tab4GapAnalysis
    \/ Tab5DetailedReports

Spec == Init /\ [][Next]_vars

-----------------------------------------------------------------------------
(* Properties.                                                             *)

\* the analysis table of the run, once loaded
Analysis == data["analysis"]

\* the rows of a table as a set of positions
Rows(df) == 1..Len(df.rows)

\* C1: every entry of the gap table counts the 'NO' rows of its language, has a
\* count of at least 5, is CRITICAL exactly when the count is at least 10 and HIGH
\* exactly when it is 5 to 9, and is never MEDIUM.
C1_GapTiers ==
    \A i \in Rows(critical_gaps) :
        LET entry == critical_gaps.rows[i]
            n == entry["Unfulfilled Requests"].d
            tier == entry["Priority"].s
        IN /\ n = Cardinality({j \in Rows(Analysis) :
                      /\ Analysis.rows[j]["Language"] = entry["Language"]
                      /\ Analysis.rows[j]["Has Linguist?"] = Str("NO")})
           /\ n >= 5
           /\ (tier = "CRITICAL") <=> (n >= 10)
           /\ (tier = "HIGH") <=> (5 <= n /\ n < 10)
           /\ tier # "MEDIUM"

\* C1 witness: a gap table with a CRITICAL entry of 10 and a HIGH entry of 9, from
\* a table that also has a language below the threshold
C1_Witness ==
    /\ \E i \in Rows(critical_gaps) :
          /\ critical_gaps.rows[i]["Priority"] = Str("CRITICAL")
          /\ critical_gaps.rows[i]["Unfulfilled Requests"].d = 10
    /\ \E i \in Rows(critical_gaps) :
          /\ critical_gaps.rows[i]["Priority"] = Str("HIGH")
          /\ critical_gaps.rows[i]["Unfulfilled Requests"].d = 9

\* C1 witness of the filter: unfulfilled requests of a language, 4 of them, are
\* left out of the gap table
C1_FilterWitness ==
    /\ pc = "tab5"
    /\ "analysis" \in DOMAIN data
    /\ Cardinality({j \in Rows(Analysis) : Analysis.rows[j] = Row(Str("Farsi"), Str("NO"))}) = 4
    /\ \A i \in Rows(critical_gaps) : critical_gaps.rows[i]["Language"] # Str("Farsi")

\* C2: a missing expected column of the analysis table never ends the run with a
\* raised error.
C2_MissingColumnNeverRaises ==
    ("analysis" \in DOMAIN data
        /\ ~({"Language", "Has Linguist?"} \subseteq Analysis.cols))
    => ~(pc = "crashed" /\ error = "KeyError")

\* the key load_data stores the table of a file under
FileOf(key) ==
    CASE key = "master" -> master_file
      [] key = "analysis" -> analysis_file
      [] key = "linguists" -> linguist_file

\* C3: when an uploaded file is unreadable, the tables of the other, readable
\* uploaded files are in the mapping load_data returned.
C3_OtherFilesStayUsable ==
    (/\ pc \notin {"start", "welcome"}
     /\ \E key \in {"master", "analysis", "linguists"} : FileOf(key).kind = "corrupt")
    => \A key \in {"master", "analysis", "linguists"} :
          FileOf(key).kind = "xlsx" => key \in DOMAIN data

\* has the analysis workbook a sheet of that name, and the frame read from it
HasSheet(name) == \E i \in DOMAIN analysis_file.sheets : analysis_file.sheets[i].name = name
SheetTable(name) ==
    ReadSheet(analysis_file.sheets[CHOOSE i \in DOMAIN analysis_file.sheets :
                                      analysis_file.sheets[i].name = name].table)

\* C4: load_data returns a 'summary' table exactly when both named sheets can be
\* read, and then 'analysis' is the 'All Historical Data' sheet; otherwise
\* 'analysis' is the default sheet and there is no 'summary'.
C4_NamedSheetsOrDefault ==
    (pc \notin {"start", "welcome", "crashed"} /\ analysis_file.kind = "xlsx")
    => LET both == HasSheet("All Historical Data") /\ HasSheet("Summary")
       IN /\ "analysis" \in DOMAIN loaded
          /\ ("summary" \in DOMAIN loaded) <=> both
          /\ both => /\ loaded["analysis"] = SheetTable("All Historical Data")
                     /\ loaded["summary"] = SheetTable("Summary")
          /\ ~both => loaded["analysis"] = ReadSheet(analysis_file.sheets[1].table)

\* C4 witness: 'All Historical Data' was read, 'Summary' is missing, and the
\* default sheet, another one, is what 'analysis' holds
C4_Witness ==
    /\ pc = "tab1"
    /\ analysis_file.kind = "xlsx"
    /\ HasSheet("All Historical Data")
    /\ ~HasSheet("Summary")
    /\ analysis_file.sheets[1].name = "Sheet1"
    /\ loaded["analysis"] = OtherTable
    /\ "summary" \notin DOMAIN loaded

\* C5: with a Has Linguist? column the fulfillment rate is YES rows / rows * 100,
\* within [0, 100] for a table with rows and exactly 0 for a table without rows,
\* and is never a division by zero.
C5_FulfillmentRateRange ==
    (overview.shown /\ overview.has_status)
    => LET rate == overview.fulfillment_rate
           total == Len(Analysis.rows)
           yes == Cardinality({j \in Rows(Analysis) :
                                  Analysis.rows[j]["Has Linguist?"] = Str("YES")})
       IN /\ rate.den # 0
          /\ total > 0 => /\ rate.num * total = yes * 100 * rate.den
                          /\ 0 <= rate.num
                          /\ rate.num <= 100 * rate.den
          /\ total = 0 => rate.num = 0

\* C5 witness: a rate strictly between 0 and 100
C5_Witness ==
    /\ overview.shown
    /\ overview.has_status
    /\ 0 < overview.fulfillment_rate.num
    /\ overview.fulfillment_rate.num < 100 * overview.fulfillment_rate.den

\* C5 witness of the empty table: the rate of a table with the column and no rows
C5_EmptyWitness ==
    /\ overview.shown
    /\ overview.has_status
    /\ overview.total_requests = 0
    /\ overview.fulfillment_rate.num = 0

RECURSIVE SumCounts(_, _)
SumCounts(rows, i) ==
    IF i > Len(rows) THEN 0 ELSE rows[i]["Request Count"].d + SumCounts(rows, i + 1)

\* C6: for a table whose Language column has no nulls the Request Counts of
\* process_language_stats sum to the number of rows, none is negative, there is one
\* entry per distinct Language, in descending order of count; without a Language
\* column the result is empty.
C6_LanguageCounts ==
    language_stats.shown
    => LET stats == language_stats.stats
       IN /\ "Language" \notin Analysis.cols => stats.rows = <<>>
          /\ ("Language" \in Analysis.cols
                 /\ \A j \in Rows(Analysis) : Analysis.rows[j]["Language"] # NaN)
             => /\ SumCounts(stats.rows, 1) = Len(Analysis.rows)
                /\ \A i \in Rows(stats) : stats.rows[i]["Request Count"].d >= 0
                /\ {stats.rows[i]["Language"] : i \in Rows(stats)}
                      = {Analysis.rows[j]["Language"] : j \in Rows(Analysis)}
                /\ \A i, k \in Rows(stats) :
                      i # k => stats.rows[i]["Language"] # stats.rows[k]["Language"]
                /\ \A i, k \in Rows(stats) :
                      i < k => stats.rows[i]["Request Count"].d >= stats.rows[k]["Request Count"].d

\* C6 witness: two languages, the second one seen first and requested less
C6_Witness ==
    /\ language_stats.shown
    /\ \A j \in Rows(Analysis) : Analysis.rows[j]["Language"] # NaN
    /\ Len(language_stats.stats.rows) = 2
    /\ language_stats.stats.rows[1]["Request Count"].d = 2
    /\ language_stats.stats.rows[2]["Request Count"].d = 1
    /\ Analysis.rows[1]["Language"] = language_stats.stats.rows[2]["Language"]

\* C6 witness of the missing column: an empty result for a table with rows
C6_NoColumnWitness ==
    /\ language_stats.shown
    /\ "Language" \notin Analysis.cols
    /\ Len(Analysis.rows) > 0
    /\ language_stats.stats.rows = <<>>

\* the weekday, 1 = Monday .. 7 = Sunday, of a day count from 1970-01-01, a Thursday
Weekday(d) == ((d + 3) % 7) + 1

\* C7: with a 'Row Added' column the day-of-week volume has the 7 entries Monday
\* to Sunday in that order, each counting the rows added on that weekday, 0 for a
\* day without rows; rows without a date in 'Row Added' are counted under no day.
C7_DayOfWeekVolume ==
    (trends.shown /\ "Row Added" \in loaded["master"].cols)
    => LET master == loaded["master"]
           dated == {j \in Rows(master) : to_datetime(master.rows[j]["Row Added"]).k = "ts"}
       IN /\ [i \in 1..Len(trends.day_counts) |-> trends.day_counts[i].value]
                = <<"Monday", "Tuesday", "Wednesday", "Thursday", "Friday",
                    "Saturday", "Sunday">>
          /\ \A i \in 1..Len(trends.day_counts) :
                trends.day_counts[i].count =
                    Cardinality({j \in dated :
                        Weekday(to_datetime(master.rows[j]["Row Added"]).d) = i})

\* C7 witness: a text that is no date, a missing date and a Thursday
C7_Witness ==
    /\ trends.shown
    /\ "Row Added" \in loaded["master"].cols
    /\ \E j \in Rows(loaded["master"]) : loaded["master"].rows[j]["Row Added"] = Str("pending")
    /\ \E j \in Rows(loaded["master"]) : loaded["master"].rows[j]["Row Added"] = NaN
    /\ Len(trends.day_counts) = 7
    /\ trends.day_counts[4].count = 1
    /\ trends.day_counts[1].count = 0

\* is term, compared case-insensitively, a literal substring of text
LiteralContains(text, term) ==
    \E j \in 0..(Len(text) - Len(term)) :
        \A i \in 1..Len(term) : lower(text[j + i]) = lower(term[i])

\* C8: for every non-empty term the search returns exactly the rows in which some
\* column's string form contains the term as a literal substring, ignoring case.
C8_LiteralSearch ==
    (/\ pc \in {"done", "crashed"}
     /\ error \in {"", "re.error"}
     /\ search_term # <<>>
     /\ "analysis" \in DOMAIN data)
    => /\ search.performed
       /\ search.found =
             Take(Analysis, {i \in Rows(Analysis) : \E c \in Analysis.cols :
                                LiteralContains(astype_str(Analysis.rows[i][c]), search_term)})

\* C9: with both columns, a listed language is 'Sourceable' exactly when one of its
\* rows has Has Linguist? == 'YES' and 'Not Sourceable' otherwise; the merge keeps
\* every language once, with its Request Count.
C9_SourcingStatus ==
    (language_stats.shown /\ {"Language", "Has Linguist?"} \subseteq Analysis.cols)
    => LET stats == language_stats.stats
       IN /\ \A i \in Rows(stats) :
                LET sourced == \E j \in Rows(Analysis) :
                                  /\ Analysis.rows[j]["Language"] = stats.rows[i]["Language"]
                                  /\ Analysis.rows[j]["Has Linguist?"] = Str("YES")
                IN /\ stats.rows[i]["Status"] =
                         (IF sourced THEN Str("Sourceable") ELSE Str("Not Sourceable"))
                   /\ stats.rows[i]["Request Count"].d =
                         Cardinality({j \in Rows(Analysis) :
                             Analysis.rows[j]["Language"] = stats.rows[i]["Language"]})
          /\ {stats.rows[i]["Language"] : i \in Rows(stats)}
                = {Analysis.rows[j]["Language"] : j \in Rows(Analysis)} \ {NaN}
          /\ \A i, k \in Rows(stats) :
                i # k => stats.rows[i]["Language"] # stats.rows[k]["Language"]

\* C9 witness: a language whose only values are neither 'YES' nor 'NO', listed as
\* 'Not Sourceable', beside a 'Sourceable' one
C9_Witness ==
    /\ language_stats.shown
    /\ {"Language", "Has Linguist?"} \subseteq Analysis.cols
    /\ \E i \in Rows(language_stats.stats) :
          /\ language_stats.stats.rows[i]["Status"] = Str("Not Sourceable")
          /\ \A j \in Rows(Analysis) :
                Analysis.rows[j]["Language"] = language_stats.stats.rows[i]["Language"]
                => Analysis.rows[j]["Has Linguist?"] = Str("MAYBE")
    /\ \E i \in Rows(language_stats.stats) :
          language_stats.stats.rows[i]["Status"] = Str("Sourceable")

\* the same value, whatever its form: equal cells, two missing values, or a text
\* and the date it parses to
SameValue(before, after) ==
    \/ after = before
    \/ IsNull(before) /\ IsNull(after)
    \/ before.k = "str" /\ after.k = "ts" /\ after = ParseDate(before.s)

SameValues(before, after) ==
    /\ after.cols = before.cols
    /\ Len(after.rows) = Len(before.rows)
    /\ \A i \in Rows(before) : \A c \in before.cols :
          SameValue(before.rows[i][c], after.rows[i][c])

\* C10: once the Trends tab has run, the master table of the loaded data, and the
\* one the Raw Data View shows, hold the values load_data returned, the cells that
\* are no dates included.
C10_MasterTableUnmodified ==
    /\ (pc \in {"tab4", "tab5", "done"} /\ "master" \in DOMAIN data)
          => SameValues(loaded["master"], data["master"])
    /\ (raw_view.shown /\ raw_view.key = "master")
          => SameValues(loaded["master"], raw_view.table)

=============================================================================
